---------------------------- MODULE Spec2Model ----------------------------
(***************************************************************************)
(* Line integral convolution: a model of                                   *)
(* src/src/line_integral_convolutions/lic.py.                              *)
(*                                                                         *)
(* The program computes on IEEE floating point numbers.  The model         *)
(* computes on exact rationals (a pair <<numerator, denominator>> in       *)
(* lowest terms, denominator > 0), extended by the two non-finite values   *)
(* the program can produce: Inf (np.inf) and NaN.  Rounding is not         *)
(* modelled: every statement below is a statement about the algorithm in   *)
(* exact arithmetic.                                                       *)
(***************************************************************************)
EXTENDS Integers, Sequences, FiniteSets, TLC

(***************************************************************************)
(* Bounds of the model.                                                    *)
(***************************************************************************)
\* the grids have 1..MaxRows rows and 1..MaxCols columns
MaxRows == 2
MaxCols == 3
\* streamlength ranges over 0..MaxStreamlength
MaxStreamlength == 2

\* the velocity components a vector field is built from
Speeds == {-1, 0, 2}
\* the execution units of the parallel loop
Tasks == {"t1", "t2"}

(***************************************************************************)
(* Exact arithmetic.                                                       *)
(***************************************************************************)
NaN == <<0, 0>>
Inf == <<1, 0>>

Abs(n) == IF n < 0 THEN -n ELSE n

RECURSIVE GCD(_, _)
GCD(a, b) == IF b = 0 THEN a ELSE GCD(b, a % b)

\* the rational n/d in lowest terms; a zero denominator gives a non-finite value
Rat(n, d) ==
    IF d = 0 THEN (IF n = 0 THEN NaN ELSE Inf)
    ELSE LET s == IF d < 0 THEN -1 ELSE 1
             g == GCD(Abs(n), Abs(d))
         IN  <<(s * n) \div g, (s * d) \div g>>

IntToRat(n) == <<n, 1>>
IsFinite(a) == a[2] # 0
IsInteger(a) == a[2] = 1

RAdd(a, b) == IF IsFinite(a) /\ IsFinite(b) THEN Rat(a[1] * b[2] + b[1] * a[2], a[2] * b[2]) ELSE NaN
RSub(a, b) == IF IsFinite(a) /\ IsFinite(b) THEN Rat(a[1] * b[2] - b[1] * a[2], a[2] * b[2]) ELSE NaN
RMul(a, b) == IF IsFinite(a) /\ IsFinite(b) THEN Rat(a[1] * b[1], a[2] * b[2]) ELSE NaN
\* IEEE division: x/0 is non-finite, never a fault
RDiv(a, b) == IF IsFinite(a) /\ IsFinite(b) THEN Rat(a[1] * b[2], a[2] * b[1]) ELSE NaN
\* comparisons; every comparison with NaN is false, Inf is above every finite value
RLt(a, b) ==
    IF a = NaN \/ b = NaN THEN FALSE
    ELSE IF a = Inf THEN FALSE
    ELSE IF b = Inf THEN TRUE
    ELSE a[1] * b[2] < b[1] * a[2]
RLe(a, b) == RLt(a, b) \/ (a = b /\ a # NaN)
\* Python's min(a, b): b unless a < b
RMin(a, b) == IF RLt(a, b) THEN a ELSE b
\* np.floor and np.ceil, as integers
Floor(a) == a[1] \div a[2]
Ceil(a) == -((-a[1]) \div a[2])
\* Python's a % n for a positive integer n: the result is in [0, n)
RMod(a, n) == RSub(a, IntToRat(n * Floor(RDiv(a, IntToRat(n)))))

(***************************************************************************)
(* taper_pixel_contribution                                                *)
(***************************************************************************)
\* cos(pi * k / n) where it is rational (k/n in {0, 1/3, 1/2, 2/3, 1}); these
\* are all the arguments that occur for streamlength <= 3
CosPi(k, n) ==
    CASE k = 0         -> IntToRat(1)
      [] 3 * k = n     -> Rat(1, 2)
      [] 2 * k = n     -> IntToRat(0)
      [] 3 * k = 2 * n -> Rat(-1, 2)
      [] k = n         -> IntToRat(-1)

\* a variant: the weight of the step after
taper_off_by_one(streamlength, step_index) ==
    IF streamlength = 0 THEN NaN
    ELSE RMul(Rat(1, 2), RAdd(IntToRat(1), CosPi(step_index + 1, streamlength)))

taper_pixel_contribution(streamlength, step_index) ==
    IF streamlength = 0 THEN NaN
    ELSE RMul(Rat(1, 2), RAdd(IntToRat(1), CosPi(step_index, streamlength)))

(***************************************************************************)
(* advect_streamline                                                       *)
(***************************************************************************)
Rows(R) == 0 .. (R - 1)
Cols(C) == 0 .. (C - 1)

\* vfield[comp, row_int, col_int] and sfield_in[row_int, col_int].  The program
\* never reads outside the arrays (IndexedCellInGrid below); a read outside is given
\* the value 0 so that the model stays defined.
ReadVfield(vf, comp, r, c) == IF <<comp, r, c>> \in DOMAIN vf THEN vf[comp, r, c] ELSE 0
ReadSfield(sf, r, c) == IF <<r, c>> \in DOMAIN sf THEN sf[r, c] ELSE 0

\* a variant: the components taken the other way round
VelocityAtSwapped(vf, dir_sgn, r, c) ==
    [ col |-> dir_sgn * ReadVfield(vf, 1, r, c),
      row |-> dir_sgn * ReadVfield(vf, 0, r, c) ]

\* vel_col = dir_sgn * vfield[0, row_int, col_int], vel_row = dir_sgn * vfield[1, row_int, col_int]
VelocityAt(vf, dir_sgn, r, c) ==
    [ col |-> dir_sgn * ReadVfield(vf, 0, r, c),
      row |-> dir_sgn * ReadVfield(vf, 1, r, c) ]

\* a variant: one iteration more
LoopContinuesInclusive(step, streamlength) == step <= streamlength

\* for step in range(streamlength)
LoopContinues(step, streamlength) == step < streamlength

\* a variant: "or" for "and"
StalledEither(vel_row, vel_col) == Abs(vel_row) = 0 \/ Abs(vel_col) = 0

\* abs(vel_row) == 0.0 and abs(vel_col) == 0.0
Stalled(vel_row, vel_col) == Abs(vel_row) = 0 /\ Abs(vel_col) = 0

\* a variant: floor(pos) for ceil(pos) - 1 when the velocity is negative
DeltaTimeFloor(pos, vel) ==
    IF vel > 0 THEN RDiv(RSub(IntToRat(Floor(pos) + 1), pos), IntToRat(vel))
    ELSE IF vel < 0 THEN RDiv(RSub(IntToRat(Floor(pos)), pos), IntToRat(vel))
    ELSE Inf

\* the time to leave the current cell along one axis
DeltaTime(pos, vel) ==
    IF vel > 0 THEN RDiv(RSub(IntToRat(Floor(pos) + 1), pos), IntToRat(vel))
    ELSE IF vel < 0 THEN RDiv(RSub(IntToRat(Ceil(pos) - 1), pos), IntToRat(vel))
    ELSE Inf

\* a variant: no wrap
NoWrap(x, n) == x

\* (x + n) % n
WrapPeriodic(x, n) == RMod(RAdd(x, IntToRat(n)), n)

\* a variant: <= for < at the upper edges
InDomainInclusive(row_float, col_float, R, C) ==
    /\ RLe(IntToRat(0), row_float) /\ RLe(row_float, IntToRat(R))
    /\ RLe(IntToRat(0), col_float) /\ RLe(col_float, IntToRat(C))

\* (0 <= row_float < num_rows) and (0 <= col_float < num_cols)
InDomain(row_float, col_float, R, C) ==
    /\ RLe(IntToRat(0), row_float) /\ RLt(row_float, IntToRat(R))
    /\ RLe(IntToRat(0), col_float) /\ RLt(col_float, IntToRat(C))

\* The state of one call: the loop variable, the locals of the function, how
\* the loop stands ("running", or ended by "budget", "stall" or "exit"), and a
\* record of the call: its seed, the iterations begun, the last iteration and
\* the samples <<row_int, col_int, contribution_weight>> added so far.
StreamlineInit(start_row, start_col, streamlength) ==
    [ seed         |-> <<start_row, start_col>>,
      step         |-> 0,
      row_float    |-> IntToRat(start_row),
      col_float    |-> IntToRat(start_col),
      weighted_sum |-> IntToRat(0),
      total_weight |-> IntToRat(0),
      status       |-> IF LoopContinues(0, streamlength) THEN "running" ELSE "budget",
      iterations   |-> 0,
      samples      |-> << >>,
      last         |-> [ moved |-> FALSE ] ]

\* One iteration of the loop body.
AdvectIteration(vf, sf, R, C, dir_sgn, streamlength, periodic, s) ==
    LET row_int == Floor(s.row_float)
        col_int == Floor(s.col_float)
        vel == VelocityAt(vf, dir_sgn, row_int, col_int)
        vel_col == vel.col
        vel_row == vel.row
        delta_time_row == DeltaTime(s.row_float, vel_row)
        delta_time_col == DeltaTime(s.col_float, vel_col)
        time_step == RMin(delta_time_col, delta_time_row)
        col_new == RAdd(s.col_float, RMul(IntToRat(vel_col), time_step))
        row_new == RAdd(s.row_float, RMul(IntToRat(vel_row), time_step))
        contribution_weight == taper_pixel_contribution(streamlength, s.step)
        read == [ moved |-> FALSE, row_int |-> row_int, col_int |-> col_int ]
        move == [ moved |-> TRUE, row_int |-> row_int, col_int |-> col_int,
                  vel_row |-> vel_row, vel_col |-> vel_col,
                  delta_time_row |-> delta_time_row, delta_time_col |-> delta_time_col,
                  time_step |-> time_step,
                  row_from |-> s.row_float, col_from |-> s.col_float,
                  row_to |-> row_new, col_to |-> col_new ]
        began == [ s EXCEPT !.iterations = s.iterations + 1 ]
    IN  IF Stalled(vel_row, vel_col)
        THEN [ began EXCEPT !.status = "stall", !.last = read ]
        ELSE IF (~periodic) /\ ~InDomain(row_new, col_new, R, C)
        THEN [ began EXCEPT !.status = "exit", !.last = move,
                            !.row_float = row_new, !.col_float = col_new ]
        ELSE [ began EXCEPT
                 !.row_float = IF periodic THEN WrapPeriodic(row_new, R) ELSE row_new,
                 !.col_float = IF periodic THEN WrapPeriodic(col_new, C) ELSE col_new,
                 !.weighted_sum = RAdd(s.weighted_sum,
                     RMul(contribution_weight, IntToRat(ReadSfield(sf, row_int, col_int)))),
                 !.total_weight = RAdd(s.total_weight, contribution_weight),
                 !.samples = Append(s.samples, <<row_int, col_int, contribution_weight>>),
                 !.last = move,
                 !.step = s.step + 1,
                 !.status = IF LoopContinues(s.step + 1, streamlength)
                            THEN "running" ELSE "budget" ]

RECURSIVE RunStreamline(_, _, _, _, _, _, _, _)
RunStreamline(vf, sf, R, C, dir_sgn, streamlength, periodic, s) ==
    IF s.status = "running"
    THEN RunStreamline(vf, sf, R, C, dir_sgn, streamlength, periodic,
             AdvectIteration(vf, sf, R, C, dir_sgn, streamlength, periodic, s))
    ELSE s

\* the whole call; the program returns (weighted_sum, total_weight) of it
advect_streamline(vf, sf, start_row, start_col, dir_sgn, streamlength, periodic, R, C) ==
    RunStreamline(vf, sf, R, C, dir_sgn, streamlength, periodic,
                  StreamlineInit(start_row, start_col, streamlength))

(***************************************************************************)
(* _compute_lic: the loop body                                             *)
(***************************************************************************)
\* a variant: the division without its guard
OutputValueUnguarded(total_sum, total_weight) == RDiv(total_sum, total_weight)

\* sfield_out[row, col] = total_sum / total_weight if total_weight > 0.0 else 0.0
OutputValue(total_sum, total_weight) ==
    IF RLt(IntToRat(0), total_weight) THEN RDiv(total_sum, total_weight) ELSE IntToRat(0)

\* the value the loop body stores for one pixel
PixelValue(vf, sf, row, col, streamlength, periodic, R, C) ==
    LET f == advect_streamline(vf, sf, row, col, 1, streamlength, periodic, R, C)
        b == advect_streamline(vf, sf, row, col, -1, streamlength, periodic, R, C)
    IN  OutputValue(RAdd(f.weighted_sum, b.weighted_sum), RAdd(f.total_weight, b.total_weight))

(***************************************************************************)
(* Inputs.                                                                 *)
(***************************************************************************)
Velocities == Speeds \X Speeds

\* a vector field of shape (2, R, C): velocity a on the cells with row + col
\* even, velocity b on the others (a uniform field when a = b); a velocity is
\* <<component 0, component 1>>
VectorField(R, C, a, b) ==
    [ i \in (0 .. 1) \X Rows(R) \X Cols(C) |->
        IF (i[2] + i[3]) % 2 = 0 THEN a[i[1] + 1] ELSE b[i[1] + 1] ]

VectorFields(R, C) == { VectorField(R, C, a, b) : a \in Velocities, b \in Velocities }

\* scalar fields of shape (R, C): the column ramp, and a field with pairwise
\* different values of both signs
ScalarFields(R, C) ==
    { [ i \in Rows(R) \X Cols(C) |-> i[2] ],
      [ i \in Rows(R) \X Cols(C) |-> 2 * (i[1] * C + i[2]) - 3 ] }

\* np.zeros((num_rows, num_cols))
Zeros(R, C) == [ i \in Rows(R) \X Cols(C) |-> IntToRat(0) ]

(***************************************************************************)
(* State.                                                                  *)
(***************************************************************************)
VARIABLES
    num_rows, num_cols,   \* vfield.shape[1], vfield.shape[2]
    vfield,               \* the vector field, read only
    sfield_in,            \* the scalar field, read only
    streamlength,
    bool_periodic_BCs,
    sfield_out,           \* the output grid
    writes,               \* per cell, the stores made to it so far (a record of the run)
    \* the sequential run
    row, col,             \* the pixel of the loops
    pc,                   \* where the run stands
    dir_sgn,              \* the direction of the call in progress
    sl,                   \* the call in progress
    forward, backward,    \* the results of the two calls of the current pixel
    \* the parallel run
    owner,                \* the task each iteration (row) of the parallel loop is given to
    task,                 \* per task, where it stands
    local                 \* the loop body's local variables total_sum and total_weight

inputs == <<num_rows, num_cols, vfield, sfield_in, streamlength, bool_periodic_BCs>>
seqvars == <<row, col, pc, dir_sgn, sl, forward, backward>>
parvars == <<owner, task, local>>
vars == <<inputs, sfield_out, writes, seqvars, parvars>>

NoResult == [ status |-> "none" ]
Cells == Rows(num_rows) \X Cols(num_cols)

\* np.zeros((num_rows, num_cols)) and an empty record of stores
InitOutput ==
    /\ sfield_out = Zeros(num_rows, num_cols)
    /\ writes = [ i \in Cells |-> << >> ]

\* what a store leaves in the record: who stored, and what the value came from
WriteRecord(by, f, b) ==
    [ by |-> by, forward_seed |-> f.seed, backward_seed |-> b.seed,
      samples |-> f.samples \o b.samples,
      total_sum |-> RAdd(f.weighted_sum, b.weighted_sum),
      total_weight |-> RAdd(f.total_weight, b.total_weight) ]

(***************************************************************************)
(* The sequential run of _compute_lic, one statement at a time.            *)
(***************************************************************************)
SeqIdle ==
    /\ row = 0 /\ col = 0 /\ pc = "idle" /\ dir_sgn = 1
    /\ sl = NoResult /\ forward = NoResult /\ backward = NoResult

ParIdle == owner = << >> /\ task = << >> /\ local = << >>

Init ==
    /\ num_rows \in 1 .. MaxRows
    /\ num_cols \in 1 .. MaxCols
    /\ vfield \in VectorFields(num_rows, num_cols)
    /\ sfield_in \in ScalarFields(num_rows, num_cols)
    /\ streamlength \in 0 .. MaxStreamlength
    /\ bool_periodic_BCs \in BOOLEAN
    /\ InitOutput
    /\ row = 0
    /\ col = 0
    /\ pc = "forward"
    /\ dir_sgn = 1
    /\ sl = StreamlineInit(0, 0, streamlength)
    /\ forward = NoResult
    /\ backward = NoResult
    /\ ParIdle

\* one iteration of the loop of the call in progress
Iterate ==
    /\ pc \in {"forward", "backward"}
    /\ sl.status = "running"
    /\ sl' = AdvectIteration(vfield, sfield_in, num_rows, num_cols, dir_sgn,
                             streamlength, bool_periodic_BCs, sl)
    /\ UNCHANGED <<inputs, sfield_out, writes, row, col, pc, dir_sgn, forward, backward, parvars>>

\* the forward call returns and the backward call starts
ForwardReturn ==
    /\ pc = "forward"
    /\ sl.status # "running"
    /\ forward' = sl
    /\ pc' = "backward"
    /\ dir_sgn' = -1
    /\ sl' = StreamlineInit(row, col, streamlength)
    /\ UNCHANGED <<inputs, sfield_out, writes, row, col, backward, parvars>>

\* the backward call returns
BackwardReturn ==
    /\ pc = "backward"
    /\ sl.status # "running"
    /\ backward' = sl
    /\ pc' = "store"
    /\ UNCHANGED <<inputs, sfield_out, writes, row, col, dir_sgn, sl, forward, parvars>>

\* the pixel is stored and the loops move on
Store ==
    /\ pc = "store"
    /\ sfield_out' = [ sfield_out EXCEPT ![row, col] =
           OutputValue(RAdd(forward.weighted_sum, backward.weighted_sum),
                       RAdd(forward.total_weight, backward.total_weight)) ]
    /\ writes' = [ writes EXCEPT ![row, col] = Append(@, WriteRecord("main", forward, backward)) ]
    /\ LET last_col == col + 1 = num_cols
           last_row == row + 1 = num_rows
       IN  /\ col' = IF last_col THEN 0 ELSE col + 1
           /\ row' = IF last_col THEN row + 1 ELSE row
           /\ pc' = IF last_col /\ last_row THEN "done" ELSE "forward"
           /\ dir_sgn' = 1
           /\ sl' = IF last_col /\ last_row THEN sl
                    ELSE StreamlineInit(row', col', streamlength)
    /\ forward' = NoResult
    /\ backward' = NoResult
    /\ UNCHANGED <<inputs, parvars>>

Next == Iterate \/ ForwardReturn \/ BackwardReturn \/ Store

Spec == Init /\ [][Next]_vars

(***************************************************************************)
(* The parallel run of _compute_lic: the rows of the prange loop are given *)
(* to tasks, each task runs its rows in increasing order, and the tasks    *)
(* interleave between computing a pixel and storing it.                    *)
(***************************************************************************)
\* a variant: every task runs every iteration
OwnsEvery(t, r) == TRUE

\* the iterations of the parallel loop given to task t
Owns(t, r) == owner[r] = t

RECURSIVE RowsFrom(_, _)
RowsFrom(t, r) ==
    IF r >= num_rows THEN << >>
    ELSE IF Owns(t, r) THEN <<r>> \o RowsFrom(t, r + 1)
    ELSE RowsFrom(t, r + 1)
\* the rows of task t, in the order it runs them
OwnedRows(t) == RowsFrom(t, 0)

\* a variant: one set of loop body variables for all tasks
SharedSlot(t) == CHOOSE u \in Tasks : TRUE

\* the variables assigned in the loop body are private to the task
LocalSlot(t) == t

\* sfield_out[row, col] of the loop body's store
TargetCell(r, c) == <<r, c>>

TaskRunning(t) == task[t].k <= Len(OwnedRows(t))
TaskRow(t) == OwnedRows(t)[task[t].k]

InitParallel ==
    /\ InitOutput
    /\ SeqIdle
    /\ owner \in [ Rows(num_rows) -> Tasks ]
    /\ task = [ t \in Tasks |-> [ k |-> 1, col |-> 0, at |-> "compute" ] ]
    /\ local = [ t \in Tasks |-> NoResult ]

\* velocities of the fields of the parallel runs
ParVelocities == { <<2, -1>>, <<-1, 0>>, <<0, 2>> }

InitLic ==
    /\ num_rows = MaxRows
    /\ num_cols = MaxCols
    /\ vfield \in { VectorField(num_rows, num_cols, a, IF still THEN <<0, 0>> ELSE a) :
                      a \in ParVelocities, still \in BOOLEAN }
    /\ sfield_in = [ i \in Cells |-> 2 * (i[1] * num_cols + i[2]) - 3 ]
    /\ streamlength \in 0 .. MaxStreamlength
    /\ bool_periodic_BCs \in BOOLEAN
    /\ InitParallel

\* task t computes the pixel it stands at: lines 90-109
Compute(t) ==
    /\ TaskRunning(t)
    /\ task[t].at = "compute"
    /\ LET f == advect_streamline(vfield, sfield_in, TaskRow(t), task[t].col, 1,
                                  streamlength, bool_periodic_BCs, num_rows, num_cols)
           b == advect_streamline(vfield, sfield_in, TaskRow(t), task[t].col, -1,
                                  streamlength, bool_periodic_BCs, num_rows, num_cols)
       IN  local' = [ local EXCEPT ![LocalSlot(t)] =
                        [ status |-> "set",
                          total_sum |-> RAdd(f.weighted_sum, b.weighted_sum),
                          total_weight |-> RAdd(f.total_weight, b.total_weight),
                          record |-> WriteRecord(t, f, b) ] ]
    /\ task' = [ task EXCEPT ![t].at = "store" ]
    /\ UNCHANGED <<inputs, sfield_out, writes, seqvars, owner>>

\* task t stores the pixel and moves on: lines 110-113, 88-89
StorePixel(t) ==
    /\ TaskRunning(t)
    /\ task[t].at = "store"
    /\ LET cell == TargetCell(TaskRow(t), task[t].col)
           mine == local[LocalSlot(t)]
       IN  /\ sfield_out' = [ sfield_out EXCEPT ![cell] =
                                OutputValue(mine.total_sum, mine.total_weight) ]
           /\ writes' = [ writes EXCEPT ![cell] = Append(@, [ mine.record EXCEPT !.by = t ]) ]
    /\ task' = [ task EXCEPT ![t] =
                   IF task[t].col + 1 = num_cols
                   THEN [ k |-> task[t].k + 1, col |-> 0, at |-> "compute" ]
                   ELSE [ k |-> task[t].k, col |-> task[t].col + 1, at |-> "compute" ] ]
    /\ UNCHANGED <<inputs, seqvars, owner, local>>

NextLic == \E t \in Tasks : Compute(t) \/ StorePixel(t)

SpecLic == InitLic /\ [][NextLic]_vars

\* the scenario of a uniform rightward field on a 4 x 4 periodic grid, the
\* scalar field being the column ramp, streamlength 2
InitScenario ==
    /\ num_rows = 4
    /\ num_cols = 4
    /\ vfield = VectorField(4, 4, <<1, 0>>, <<1, 0>>)
    /\ sfield_in = [ i \in Rows(4) \X Cols(4) |-> i[2] ]
    /\ streamlength = 2
    /\ bool_periodic_BCs = TRUE
    /\ InitParallel

SpecScenario == InitScenario /\ [][NextLic]_vars

(***************************************************************************)
(* Properties of one call of advect_streamline (specification Spec).       *)
(***************************************************************************)
Zero == IntToRat(0)
\* 0 <= x < n
Inside(x, n) == RLe(Zero, x) /\ RLt(x, IntToRat(n))
PositionInside == Inside(sl.row_float, num_rows) /\ Inside(sl.col_float, num_cols)
\* a call of the sequential run is in progress or has just ended
InCall == pc \in {"forward", "backward", "store"}
\* no cell of the vector field has both components zero
NoZeroCell == \A i \in Cells : vfield[0, i[1], i[2]] # 0 \/ vfield[1, i[1], i[2]] # 0
ZeroField == \A i \in DOMAIN vfield : vfield[i] = 0

IsPrefix(p, q) == Len(p) <= Len(q) /\ \A k \in 1 .. Len(p) : p[k] = q[k]

\* C3: every cell an iteration of advect_streamline indexes lies in the grid,
\* for both directions and both boundary modes: the cell read by the last
\* iteration and the cell the next iteration will read satisfy
\* 0 <= row_int < R and 0 <= col_int < C; under periodic boundaries the position
\* is in [0,R) x [0,C) after each step; under open boundaries a position outside
\* the domain has ended the loop.
IndexedCellInGrid ==
    InCall =>
      /\ sl.iterations > 0 =>
            /\ sl.last.row_int \in Rows(num_rows)
            /\ sl.last.col_int \in Cols(num_cols)
      /\ sl.status = "running" =>
            /\ Floor(sl.row_float) \in Rows(num_rows)
            /\ Floor(sl.col_float) \in Cols(num_cols)
      /\ bool_periodic_BCs => PositionInside
      /\ (~bool_periodic_BCs /\ ~PositionInside) => sl.status = "exit"

\* a periodic call has stepped below 0 and been wrapped, and goes on
WrappedAndRunning ==
    /\ InCall /\ bool_periodic_BCs
    /\ sl.status = "running"
    /\ sl.last.moved
    /\ (RLt(sl.last.row_to, Zero) \/ RLt(sl.last.col_to, Zero))
    /\ sl.row_float # sl.last.row_to \/ sl.col_float # sl.last.col_to

\* C4: under periodic boundaries no call ends by a boundary exit: a call ends
\* after streamlength iterations (with streamlength samples) or at a cell whose
\* two velocity components are zero, and on a field with no such cell every
\* call ends with exactly streamlength samples.
PeriodicNeverExits ==
    (InCall /\ bool_periodic_BCs) =>
      /\ sl.status # "exit"
      /\ sl.status = "budget" =>
            /\ sl.step = streamlength
            /\ Len(sl.samples) = streamlength
      /\ sl.status = "stall" =>
            /\ vfield[0, sl.last.row_int, sl.last.col_int] = 0
            /\ vfield[1, sl.last.row_int, sl.last.col_int] = 0
      /\ (NoZeroCell /\ sl.status # "running") =>
            /\ sl.status = "budget"
            /\ Len(sl.samples) = streamlength

\* a backward periodic call on a field without zero cells, some of whose
\* velocities have a zero component, has used its whole budget
PeriodicFullBudget ==
    /\ InCall /\ bool_periodic_BCs /\ NoZeroCell
    /\ \E i \in DOMAIN vfield : vfield[i] = 0
    /\ dir_sgn = -1
    /\ streamlength = MaxStreamlength
    /\ sl.status = "budget"
    /\ Len(sl.samples) = streamlength

OnNextBoundary(from, to, vel) ==
    /\ vel # 0
    /\ IsInteger(to)
    /\ IF vel > 0
       THEN RLt(from, to) /\ RLe(to, RAdd(from, IntToRat(1)))
       ELSE RLt(to, from) /\ RLe(RSub(from, IntToRat(1)), to)
\* the coordinate has not been moved past the next integer in the direction of travel
NotPastBoundary(from, to, vel) ==
    IF vel = 0 THEN to = from
    ELSE IF vel > 0 THEN RLt(from, to) /\ RLe(to, IntToRat(Floor(from) + 1))
    ELSE RLt(to, from) /\ RLe(IntToRat(Ceil(from) - 1), to)

OutputAllZero == \A i \in Cells : sfield_out[i] = Zero

ZeroStreamlengthGivesZeros ==
    streamlength = 0 =>
      /\ InCall =>
            /\ sl.iterations = 0
            /\ sl.status = "budget"
            /\ sl.samples = << >>
            /\ sl.total_weight = Zero
      /\ OutputAllZero
      /\ \A i \in Cells : \A k \in 1 .. Len(writes[i]) :
            writes[i][k].total_weight = Zero /\ writes[i][k].samples = << >>

\* the run with streamlength 0 on a field without zero cells has stored every pixel
ZeroStreamlengthRunDone ==
    /\ streamlength = 0
    /\ NoZeroCell
    /\ pc = "done"
    /\ \A i \in Cells : Len(writes[i]) = 1

RECURSIVE SumOfWeights(_)
SumOfWeights(samples) ==
    IF samples = << >> THEN Zero
    ELSE RAdd(Head(samples)[3], SumOfWeights(Tail(samples)))

RECURSIVE SumOfWeighted(_)
SumOfWeighted(samples) ==
    IF samples = << >> THEN Zero
    ELSE RAdd(RMul(Head(samples)[3], IntToRat(sfield_in[Head(samples)[1], Head(samples)[2]])),
              SumOfWeighted(Tail(samples)))

SampledValues(samples) ==
    { IntToRat(sfield_in[samples[k][1], samples[k][2]]) : k \in 1 .. Len(samples) }

\* C10: every sample weight is strictly positive and the weight of step 0 is 1;
\* a pixel's total weight is the sum of its sample weights, and is zero exactly
\* when neither direction added a sample; a pixel of positive total weight is
\* the weighted mean of the sampled values of sfield_in, hence between the
\* least and the greatest of them.
OutputIsConvexCombination ==
    /\ InCall =>
          /\ \A k \in 1 .. Len(sl.samples) : RLt(Zero, sl.samples[k][3])
          /\ sl.samples # << >> => sl.samples[1][3] = IntToRat(1)
    /\ \A i \in Cells : \A k \in 1 .. Len(writes[i]) :
          LET w == writes[i][k]
          IN  /\ \A j \in 1 .. Len(w.samples) : RLt(Zero, w.samples[j][3])
              /\ w.total_weight = SumOfWeights(w.samples)
              /\ (w.total_weight = Zero) <=> (w.samples = << >>)
              /\ RLt(Zero, w.total_weight) =>
                    /\ sfield_out[i] = RDiv(SumOfWeighted(w.samples), w.total_weight)
                    /\ \E lo \in SampledValues(w.samples) : RLe(lo, sfield_out[i])
                    /\ \E hi \in SampledValues(w.samples) : RLe(sfield_out[i], hi)

\* a pixel has been stored that lies strictly between the least and the
\* greatest of three or more sampled values
PixelStrictlyBetweenSamples ==
    \E i \in Cells :
        /\ Len(writes[i]) = 1
        /\ Len(writes[i][1].samples) >= 3
        /\ RLt(Zero, writes[i][1].total_weight)
        /\ \E lo \in SampledValues(writes[i][1].samples) : RLt(lo, sfield_out[i])
        /\ \E hi \in SampledValues(writes[i][1].samples) : RLt(sfield_out[i], hi)

(***************************************************************************)
(* Properties of the parallel run (specifications SpecLic, SpecScenario).  *)
(***************************************************************************)
AllTasksDone == \A t \in Tasks : ~TaskRunning(t)
BothTasksOwnRows == \A t \in Tasks : \E r \in Rows(num_rows) : owner[r] = t

\* the output of the run that takes the pixels one after the other, row by
\* row and column by column
RECURSIVE SequentialFrom(_, _)
SequentialFrom(k, out) ==
    IF k >= num_rows * num_cols THEN out
    ELSE LET r == k \div num_cols
             c == k % num_cols
         IN  SequentialFrom(k + 1,
                 [ out EXCEPT ![r, c] = PixelValue(vfield, sfield_in, r, c, streamlength,
                                                   bool_periodic_BCs, num_rows, num_cols) ])
SequentialOutput == SequentialFrom(0, Zeros(num_rows, num_cols))

\* C1: for every partitioning of the rows among the tasks and every
\* interleaving of the tasks, the output grid of the finished parallel run is
\* the output grid of the sequential run.
ParallelEqualsSequential ==
    AllTasksDone => sfield_out = SequentialOutput

\* a parallel run in which both tasks had rows has finished with an output
\* that is not all zeros
SharedRunDone ==
    /\ AllTasksDone
    /\ BothTasksOwnRows
    /\ ~OutputAllZero

\* C2: every output cell is stored at most once during the run and exactly
\* once by its end, by the task that owns its row, with the value of the two
\* calls seeded at that cell; a cell not stored yet holds its initial 0.
WrittenOnceByOwner ==
    \A i \in Cells :
        /\ Len(writes[i]) <= 1
        /\ AllTasksDone => Len(writes[i]) = 1
        /\ Len(writes[i]) = 0 => sfield_out[i] = Zero
        /\ Len(writes[i]) = 1 =>
              LET w == writes[i][1]
              IN  /\ w.by = owner[i[1]]
                  /\ w.forward_seed = i
                  /\ w.backward_seed = i
                  /\ sfield_out[i] = OutputValue(w.total_sum, w.total_weight)

\* both tasks have stored pixels and one of them is still running
BothTasksHaveStored ==
    /\ ~AllTasksDone
    /\ \A t \in Tasks : \E i \in Cells : Len(writes[i]) = 1 /\ writes[i][1].by = t

\* C6: uniform rightward field (component 0 = 1, component 1 = 0) on the 4 x 4
\* periodic grid, sfield_in[r][c] = c, streamlength 2: every stored pixel (r, c)
\* is (2*c + 0.5*((c+1) mod 4) + 0.5*((c-1) mod 4)) / 3, the same in every row.
ScenarioOutput ==
    \A i \in Cells :
        Len(writes[i]) >= 1 =>
          /\ sfield_out[i] = Rat(4 * i[2] + ((i[2] + 1) % 4) + ((i[2] - 1) % 4), 6)
          /\ \A j \in Cells :
                (Len(writes[j]) >= 1 /\ j[2] = i[2]) => sfield_out[j] = sfield_out[i]

\* the scenario's run has stored all 16 pixels
ScenarioRunDone ==
    /\ num_rows = 4 /\ num_cols = 4
    /\ AllTasksDone
    /\ \A i \in Cells : Len(writes[i]) = 1
    /\ sfield_out[2, 0] = Rat(2, 3)
    /\ sfield_out[1, 3] = Rat(7, 3)

=============================================================================
